---- MODULE Spec2Model ----
(***************************************************************************)
(* A model of ms-process: the streaming mzML rewrite of                    *)
(* processing/processor.py (process_mzml) driven by the line cursor of     *)
(* processing/xml_util.py, and the numeric filters and predicates of       *)
(* processing/filters.py and processing/processor.py.                      *)
(*                                                                         *)
(* The output file is a sequence of written chunks, each with its byte     *)
(* length, so that out_f.tell() is the sum of the lengths written so far.  *)
(* m/z values are fixed-point integers (tenths), intensities are naturals  *)
(* or exact fractions <<numerator, denominator>>.                          *)
(***************************************************************************)
EXTENDS Integers, Sequences, FiniteSets, TLC

VARIABLES
    doc,               \* the input file: a sequence of lines
    spectra,           \* the content of the spectrum elements of the input
    filters,           \* cli/mzml.py main: the configured Filter instances
    predicates,        \* cli/mzml.py main: the configured Predicate instances
    cursor,            \* LineEventsParser.f_it: number of lines pulled so far
    evq,               \* XMLPullParser: events fed and not yet read
    line,              \* the loop variable `line` of the outer drive loop
    wrote_line,        \* _process_mzml: wrote_line
    pc,                \* position of process_mzml
    offset,            \* _process_mzml: offset
    binary_arrays,     \* parse_spectrum: binary_arrays
    out,               \* out_f: the chunks written so far
    spectrum_offsets,  \* process_mzml: spectrum_offsets
    fin,               \* input of a filter or predicate applied on its own
    fout               \* its result

vars == <<doc, spectra, filters, predicates, cursor, evq, line, wrote_line, pc,
          offset, binary_arrays, out, spectrum_offsets, fin, fout>>

engineVars == <<doc, spectra, filters, predicates, cursor, evq, line, wrote_line,
                pc, offset, binary_arrays, out, spectrum_offsets>>

(***************************************************************************)
(* Bounds of the model.                                                    *)
(***************************************************************************)
MaxSpectra == 2
MaxCut == 4
MaxLen == 4
MaxVal == 2
MaxK == 3
MaxMz == 7
MaxIndex == 3
MaxStream == 4
MaxChildren == 2
MaxOps == 2
MaxScans == 2
MaxSamples == 2
MaxFilters == 2

(***************************************************************************)
(* Helpers.                                                                *)
(***************************************************************************)
RECURSIVE SumLen(_)
SumLen(s) == IF s = <<>> THEN 0 ELSE Head(s).len + SumLen(Tail(s))

RECURSIVE Digits(_)
Digits(n) == IF n < 10 THEN 1 ELSE 1 + Digits(n \div 10)

Str(n) == <<"0", "1", "2", "3", "4", "5", "6", "7", "8", "9">>[n + 1]

TokLen(t) == IF t = "scan" THEN 4
             ELSE IF t = "controllerType=0 " THEN 17
             ELSE IF t = "sample=1 cycle=" THEN 15
             ELSE 1

RECURSIVE IdLen(_)
IdLen(id) == IF id = <<>> THEN 0 ELSE TokLen(Head(id)) + IdLen(Tail(id))

Prefix(s, n) == [i \in 1..n |-> s[i]]

(***************************************************************************)
(* The input document.  A line carries its byte length, the tag events the *)
(* pull parser produces when the line is fed, and the spectrum it lies in  *)
(* (0 outside any spectrum subtree).                                       *)
(***************************************************************************)
Ev(a, t, i, k) == [action |-> a, tag |-> t, sp |-> i, kind |-> k]
Line(n, evs, i) == [len |-> n, events |-> evs, sp |-> i]

ArrayEvents(i, k) ==
    << Ev("start", "binaryDataArray", i, k), Ev("start", "other", i, "none"),
       Ev("end", "other", i, "none"), Ev("end", "binaryDataArray", i, k) >>

ParamEvents(i) == << Ev("start", "other", i, "none"), Ev("end", "other", i, "none") >>

SpectrumLines(i, n, shape) ==
    IF shape = "oneline"
    THEN << Line(90 + i, <<Ev("start", "spectrum", i, "none")>> \o ParamEvents(i)
                          \o ArrayEvents(i, "mz") \o ArrayEvents(i, "intensity")
                          \o <<Ev("end", "spectrum", i, "none")>>, i) >>
    ELSE << Line(30 + i,
                 (IF shape = "joined" /\ i = 1
                  THEN <<Ev("start", "other", 0, "none")>> ELSE <<>>)
                 \o <<Ev("start", "spectrum", i, "none")>>, i),
            Line(12, ParamEvents(i), i),
            Line(25, ArrayEvents(i, "mz"), i),
            Line(27, ArrayEvents(i, "intensity"), i),
            Line(11,
                 <<Ev("end", "spectrum", i, "none")>>
                 \o (IF shape = "joined" /\ i = n
                     THEN <<Ev("end", "other", 0, "none")>> ELSE <<>>), i) >>

RECURSIVE SpectrumSeq(_, _, _)
SpectrumSeq(i, n, shape) ==
    IF i > n THEN <<>>
    ELSE SpectrumLines(i, n, shape) \o SpectrumSeq(i + 1, n, shape)

Shapes == {"plain", "joined", "oneline", "indexed"}

FullDoc(n, shape) ==
    << Line(39, <<>>, 0) >>
    \o (IF shape = "indexed"
        THEN << Line(13, <<Ev("start", "other", 0, "none")>>, 0) >> ELSE <<>>)
    \o << Line(7, <<Ev("start", "mzML", 0, "none")>>, 0) >>
    \o (IF shape = "joined" /\ n > 0 THEN <<>>
        ELSE << Line(15, <<Ev("start", "other", 0, "none")>>, 0) >>)
    \o (IF shape = "plain" THEN << Line(5, <<>>, 0) >> ELSE <<>>)
    \o SpectrumSeq(1, n, shape)
    \o (IF shape = "joined" /\ n > 0 THEN <<>>
        ELSE << Line(16, <<Ev("end", "other", 0, "none")>>, 0) >>)
    \o << Line(8, <<Ev("end", "mzML", 0, "none")>>, 0) >>
    \o (IF shape = "indexed"
        THEN << Line(15, <<Ev("end", "other", 0, "none")>>, 0) >> ELSE <<>>)

\* the i-th spectrum element: its id and index attributes, its ms level
\* annotation and the decoded content of its two binary arrays
OriginalId(i, hasScan) ==
    IF hasScan THEN <<"controllerType=0 ", "scan", "=", Str(i)>>
    ELSE <<"sample=1 cycle=", Str(i)>>

Payloads ==
    { [mz |-> <<7984, 8000, 8021>>, intensity |-> <<1, 2, 9>>],
      [mz |-> <<>>, intensity |-> <<>>] }

SpectrumKinds == [level : {1, 2}, hasScan : BOOLEAN, data : Payloads, defect : {"none"}]

\* spectrum elements with three samples, well-formed and malformed: what an
\* element may lack is an annotation of its m/z array, or one of its arrays
MalformedKinds ==
    [level : {1, 2}, hasScan : {TRUE},
     data : {[mz |-> <<7984, 8000, 8021>>, intensity |-> <<1, 2, 9>>]},
     defect : {"none", "no intensity"}]
    \cup [level : {1}, hasScan : {TRUE},
          data : {[mz |-> <<7984, 8000, 8021>>, intensity |-> <<1, 2, 9>>]},
          defect : {"no kind", "no precision", "no compression", "no mz",
                    "no intensity"}]

SpectrumElem(i, k) ==
    [id |-> OriginalId(i, k.hasScan), index |-> i - 1, level |-> k.level,
     mz |-> k.data.mz, intensity |-> k.data.intensity, defect |-> k.defect]

\* the input file: where a spectrum lacks an array, the line of the array
\* holds another element
InputDoc(n, shape, kinds) ==
    [l \in 1..Len(FullDoc(n, shape)) |->
        LET ln == FullDoc(n, shape)[l]
        IN [ln EXCEPT !.events =
              [j \in 1..Len(ln.events) |->
                  IF /\ ln.events[j].tag = "binaryDataArray"
                     /\ \/ /\ kinds[ln.events[j].sp].defect = "no mz"
                           /\ ln.events[j].kind = "mz"
                        \/ /\ kinds[ln.events[j].sp].defect = "no intensity"
                           /\ ln.events[j].kind = "intensity"
                  THEN Ev(ln.events[j].action, "other", ln.events[j].sp, "none")
                  ELSE ln.events[j]]]]

\* the binaryDataArray element of kind k of spectrum element e: its kind,
\* precision and compression annotations and the content of its binary child
ArrayElem(e, k) ==
    [kind |-> IF e.defect = "no kind" /\ k = "mz" THEN "None" ELSE k,
     precision |-> IF e.defect = "no precision" /\ k = "mz" THEN "None" ELSE "float64",
     compression |-> IF e.defect = "no compression" /\ k = "mz" THEN "None" ELSE "zlib",
     data |-> IF k = "mz" THEN e.mz ELSE e.intensity]

\* the mutant of FromElement: an annotation that is missing is not looked for
FromElementLenient(a) ==
    [ok |-> TRUE, kind |-> IF a.kind = "None" THEN "mz" ELSE a.kind, precision |-> a.precision,
     compression |-> a.compression, data |-> a.data]

\* BinaryDataArray.from_element: an Exception is raised when no kind, no
\* precision or no compression annotation is found
FromElement(a) ==
    [ok |-> /\ a.kind \in {"intensity", "mz"}
            /\ a.precision \in {"float64", "float32", "int32"}
            /\ a.compression \in {"none", "zlib", "numpress_linear", "numpress_pic"},
     kind |-> a.kind, precision |-> a.precision, compression |-> a.compression,
     data |-> a.data]

\* cli/mzml.py main: the modifiers are split into filters and predicates
FilterConfigs == { <<>>, <<[type |-> "electric", threshold_multiplier |-> 3]>> }

PredicateConfigs ==
    { <<>>, <<[type |-> "mslevel", ms_level |-> 1]>>,
      <<[type |-> "index", min_index |-> 1, count |-> 1]>> }

NoCall == [fn |-> "none"]

(***************************************************************************)
(* out_f: what has been written, and where.                                *)
(***************************************************************************)
Tell(o) == SumLen(o)

\* byte position of the first byte of the k-th chunk written
StartOf(o, k) == SumLen(Prefix(o, k - 1))

\* byte position of the first byte of line l in the input file
InputPos(l) == SumLen(Prefix(doc, l - 1))

LineChunk(l) == [kind |-> "line", len |-> doc[l].len, line |-> l]

WrapperChunk == [kind |-> "wrapper", len |-> 208]

(***************************************************************************)
(* LineEventsParser (xml_util.py): advance() pulls the next line from the  *)
(* one shared line iterator and feeds it to the one pull parser, whose     *)
(* read_events() iterator is shared by every loop over `events`.           *)
(***************************************************************************)
AtEof == cursor = Len(doc)

\* the mutant of Advance: the line after the one the outer loop holds is
\* pulled, as if each loop had a line iterator of its own
AdvanceFromLine ==
    /\ line < Len(doc)
    /\ cursor' = line + 1
    /\ evq' = evq \o doc[line + 1].events

Advance ==
    /\ ~AtEof
    /\ cursor' = cursor + 1
    /\ evq' = evq \o doc[cursor + 1].events

(***************************************************************************)
(* process_mzml._process_header                                            *)
(***************************************************************************)
ProcessHeaderStart ==
    /\ pc = "start"
    /\ out' = Append(out, WrapperChunk)
    /\ pc' = "header_enter"
    /\ UNCHANGED <<doc, spectra, filters, predicates, cursor, evq, line, wrote_line,
                   offset, binary_arrays, spectrum_offsets, fin, fout>>

HeaderAdvance ==
    /\ pc = "header_enter" \/ (pc = "header" /\ evq = <<>>)
    /\ Advance
    /\ line' = cursor + 1
    /\ pc' = "header"
    /\ UNCHANGED <<doc, spectra, filters, predicates, wrote_line, offset,
                   binary_arrays, out, spectrum_offsets, fin, fout>>

\* the input ends before any <mzML> start tag: the loop ends and the
\* function returns having written the wrapper tag only
HeaderEof ==
    /\ pc = "header_enter" \/ (pc = "header" /\ evq = <<>>)
    /\ AtEof
    /\ pc' = "done"
    /\ UNCHANGED <<doc, spectra, filters, predicates, cursor, evq, line, wrote_line,
                   offset, binary_arrays, out, spectrum_offsets, fin, fout>>

HeaderStartMzML ==
    /\ pc = "header" /\ evq # <<>>
    /\ Head(evq).action = "start" /\ Head(evq).tag = "mzML"
    /\ evq' = Tail(evq)
    /\ out' = Append(out, LineChunk(line))
    /\ pc' = "body_enter"
    /\ UNCHANGED <<doc, spectra, filters, predicates, cursor, line, wrote_line,
                   offset, binary_arrays, spectrum_offsets, fin, fout>>

HeaderOtherEvent ==
    /\ pc = "header" /\ evq # <<>>
    /\ ~(Head(evq).action = "start" /\ Head(evq).tag = "mzML")
    /\ evq' = Tail(evq)
    /\ UNCHANGED <<doc, spectra, filters, predicates, cursor, line, wrote_line, pc,
                   offset, binary_arrays, out, spectrum_offsets, fin, fout>>

(***************************************************************************)
(* The filters of processing/processor.py, the ones process_mzml applies   *)
(* (apply_mut takes the spectrum alone).                                   *)
(***************************************************************************)
RECURSIVE MinOf(_)
MinOf(s) == IF Len(s) = 1 THEN s[1]
            ELSE LET m == MinOf(Tail(s)) IN IF Head(s) < m THEN Head(s) ELSE m

RECURSIVE MaxOf(_)
MaxOf(s) == IF Len(s) = 1 THEN s[1]
            ELSE LET m == MaxOf(Tail(s)) IN IF Head(s) > m THEN Head(s) ELSE m

Positive(s) == SelectSeq(s, LAMBDA v : v > 0)

\* processor.py ElectricNoiseFilter.apply_mut: the threshold is subtracted
\* from every sample and negative results are set to zero; min() of an
\* empty selection raises ValueError
ProcessorElectricNoise(intensity, k) ==
    IF Positive(intensity) = <<>> THEN [ok |-> FALSE, intensity |-> intensity]
    ELSE LET threshold == k * MinOf(Positive(intensity))
         IN [ok |-> TRUE,
             intensity |-> [i \in 1..Len(intensity) |->
                              IF intensity[i] - threshold < 0 THEN 0
                              ELSE intensity[i] - threshold]]

ApplyFilter(f, s) ==
    IF ~s.ok THEN s
    ELSE LET r == ProcessorElectricNoise(s.intensity, f.threshold_multiplier)
         IN [s EXCEPT !.ok = r.ok, !.intensity = r.intensity,
                      !.applied = Append(s.applied, f.type)]

RECURSIVE ApplyFilters(_, _)
ApplyFilters(fs, s) ==
    IF fs = <<>> THEN s ELSE ApplyFilters(Tail(fs), ApplyFilter(Head(fs), s))

(***************************************************************************)
(* process_mzml._process_mzml and parse_spectrum                           *)
(***************************************************************************)
HasScan(id) == \E i \in 1..Len(id) : id[i] = "scan"

\* the id written to the element and to the offset table
SpectrumId(e) ==
    IF HasScan(e.id) THEN e.id ELSE <<"scan", "=", Str(e.index), " ">> \o e.id

\* the mutant of SpectrumOffset: the position of the line in the input file
SpectrumOffsetFromInput == InputPos(line)

\* offset = out_f.tell()
SpectrumOffset == Tell(out)

\* the mutant of RecordOffset: the new entry is put in front
RecordOffsetInFront(offs, id, off) == <<[id |-> id, offset |-> off]>> \o offs

\* spectrum_offsets.append((spectrum_id, offset))
RecordOffset(offs, id, off) == Append(offs, [id |-> id, offset |-> off])

\* lines 183-192: the filters and the re-encoding run for ms level 1 only;
\* a missing array raises KeyError, min() of an empty m/z array ValueError.
\* The lowest and highest observed m/z annotations are inserted whenever
\* the spectrum is written.
Processed(e, arrays) ==
    LET s0 == [ok |-> TRUE, mz |-> <<>>, intensity |-> <<>>, applied |-> <<>>,
               encoded |-> FALSE]
    IN IF ~({"mz", "intensity"} \subseteq DOMAIN arrays) THEN [s0 EXCEPT !.ok = FALSE]
       ELSE LET s1 == [s0 EXCEPT !.mz = arrays["mz"], !.intensity = arrays["intensity"]]
                s2 == IF e.level = 1
                      THEN LET f == ApplyFilters(filters, s1)
                           IN [f EXCEPT !.encoded = f.ok]
                      ELSE s1
            IN IF s2.ok /\ s2.mz = <<>> THEN [s2 EXCEPT !.ok = FALSE] ELSE s2

SpectrumChunk(e, i, id, s) ==
    [kind |-> "spectrum", len |-> 60 + IdLen(id) + 8 * (Len(s.mz) + Len(s.intensity)),
     sp |-> i, id |-> id, level |-> e.level, mz |-> s.mz, intensity |-> s.intensity,
     applied |-> s.applied, encoded |-> s.encoded,
     observed |-> <<MinOf(s.mz), MaxOf(s.mz)>>]

NewlineChunk == [kind |-> "newline", len |-> 1]

BodyAdvance ==
    /\ pc = "body_enter" \/ (pc = "body" /\ evq = <<>>)
    /\ Advance
    /\ line' = cursor + 1
    /\ wrote_line' = FALSE
    /\ pc' = "body"
    /\ UNCHANGED <<doc, spectra, filters, predicates, offset, binary_arrays, out,
                   spectrum_offsets, fin, fout>>

\* the input ends inside the body: the loop ends, _process_mzml returns
\* and _process_header goes on to _write_index_and_end
BodyEof ==
    /\ pc = "body_enter" \/ (pc = "body" /\ evq = <<>>)
    /\ AtEof
    /\ pc' = "index"
    /\ UNCHANGED <<doc, spectra, filters, predicates, cursor, evq, line, wrote_line,
                   offset, binary_arrays, out, spectrum_offsets, fin, fout>>

BodyEndMzML ==
    /\ pc = "body" /\ evq # <<>>
    /\ Head(evq).action = "end" /\ Head(evq).tag = "mzML"
    /\ evq' = Tail(evq)
    /\ out' = Append(out, LineChunk(line))
    /\ pc' = "index"
    /\ UNCHANGED <<doc, spectra, filters, predicates, cursor, line, wrote_line,
                   offset, binary_arrays, spectrum_offsets, fin, fout>>

BodyStartSpectrum ==
    /\ pc = "body" /\ evq # <<>>
    /\ Head(evq).action = "start" /\ Head(evq).tag = "spectrum"
    /\ evq' = Tail(evq)
    /\ offset' = SpectrumOffset
    /\ binary_arrays' = << >>
    /\ pc' = "parse_enter"
    /\ UNCHANGED <<doc, spectra, filters, predicates, cursor, line, wrote_line, out,
                   spectrum_offsets, fin, fout>>

BodyOtherEvent ==
    /\ pc = "body" /\ evq # <<>>
    /\ ~(Head(evq).action = "end" /\ Head(evq).tag = "mzML")
    /\ ~(Head(evq).action = "start" /\ Head(evq).tag = "spectrum")
    /\ evq' = Tail(evq)
    /\ IF wrote_line THEN out' = out ELSE out' = Append(out, LineChunk(line))
    /\ wrote_line' = TRUE
    /\ UNCHANGED <<doc, spectra, filters, predicates, cursor, line, pc, offset,
                   binary_arrays, spectrum_offsets, fin, fout>>

\* parse_spectrum iterates the same parser: it pulls the next line first
ParseAdvance ==
    /\ pc = "parse_enter" \/ (pc = "parse" /\ evq = <<>>)
    /\ Advance
    /\ pc' = "parse"
    /\ UNCHANGED <<doc, spectra, filters, predicates, line, wrote_line, offset,
                   binary_arrays, out, spectrum_offsets, fin, fout>>

\* the input ends inside a spectrum: assert False
ParseEof ==
    /\ pc = "parse_enter" \/ (pc = "parse" /\ evq = <<>>)
    /\ AtEof
    /\ pc' = "error"
    /\ UNCHANGED <<doc, spectra, filters, predicates, cursor, evq, line, wrote_line,
                   offset, binary_arrays, out, spectrum_offsets, fin, fout>>

ParseEndArray ==
    /\ pc = "parse" /\ evq # <<>>
    /\ Head(evq).action = "end" /\ Head(evq).tag = "binaryDataArray"
    /\ evq' = Tail(evq)
    /\ LET e == Head(evq)
           arr == FromElement(ArrayElem(spectra[e.sp], e.kind))
       IN IF arr.ok
          THEN /\ binary_arrays' = [k \in DOMAIN binary_arrays \cup {arr.kind} |->
                                      IF k = arr.kind THEN arr.data ELSE binary_arrays[k]]
               /\ pc' = pc
          ELSE /\ binary_arrays' = binary_arrays
               /\ pc' = "error"
    /\ UNCHANGED <<doc, spectra, filters, predicates, cursor, line, wrote_line,
                   offset, out, spectrum_offsets, fin, fout>>

ParseOtherEvent ==
    /\ pc = "parse" /\ evq # <<>>
    /\ ~(Head(evq).action = "end" /\ Head(evq).tag \in {"spectrum", "binaryDataArray"})
    /\ evq' = Tail(evq)
    /\ UNCHANGED <<doc, spectra, filters, predicates, cursor, line, wrote_line, pc,
                   offset, binary_arrays, out, spectrum_offsets, fin, fout>>

\* parse_spectrum returns the spectrum and _process_mzml goes on with it
\* (lines 176-196), then with the events left in the shared iterator.
\* The spectrum is built as parse_spectrum calls it, Spectrum(elem,
\* binary_arrays): its ms level is the element's annotation (data.py line
\* 202) and its index the element's index attribute (processor.py line 178);
\* the constructor of data.py takes the index as a third argument.
ParseEndSpectrum ==
    /\ pc = "parse" /\ evq # <<>>
    /\ Head(evq).action = "end" /\ Head(evq).tag = "spectrum"
    /\ evq' = Tail(evq)
    /\ LET i == Head(evq).sp
           e == spectra[i]
           spectrum_id == SpectrumId(e)
           s == Processed(e, binary_arrays)
       IN /\ spectrum_offsets' = RecordOffset(spectrum_offsets, spectrum_id, offset)
          /\ IF s.ok
             THEN /\ out' = out \o <<SpectrumChunk(e, i, spectrum_id, s), NewlineChunk>>
                  /\ pc' = "body"
             ELSE /\ out' = out
                  /\ pc' = "error"
    /\ UNCHANGED <<doc, spectra, filters, predicates, cursor, line, wrote_line,
                   offset, binary_arrays, fin, fout>>

(***************************************************************************)
(* process_mzml._write_index_and_end                                       *)
(***************************************************************************)
OffsetChunk(entry) ==
    [kind |-> "offset", len |-> 31 + IdLen(entry.id) + Digits(entry.offset),
     id |-> entry.id, offset |-> entry.offset]

IndexListChunks(offs) ==
    << [kind |-> "indexListOpen", len |-> 22], [kind |-> "indexOpen", len |-> 26] >>
    \o [i \in 1..Len(offs) |-> OffsetChunk(offs[i])]
    \o << [kind |-> "indexClose", len |-> 11], [kind |-> "indexListClose", len |-> 13] >>

IndexListOffsetChunk(v) ==
    [kind |-> "indexListOffset", len |-> 36 + Digits(v), value |-> v]

WrapperCloseChunk == [kind |-> "wrapperClose", len |-> 15]

\* the mutant of IndexTrailer: the offset of the index list is taken once
\* the opening tags of the list are written
IndexTrailerLateOffset(o, offs) ==
    o \o IndexListChunks(offs)
      \o << IndexListOffsetChunk(Tell(o) + 22 + 26), WrapperCloseChunk >>

IndexTrailer(o, offs) ==
    LET index_list_offset == Tell(o)
    IN o \o IndexListChunks(offs)
         \o << IndexListOffsetChunk(index_list_offset), WrapperCloseChunk >>

WriteIndexAndEnd ==
    /\ pc = "index"
    /\ out' = IndexTrailer(out, spectrum_offsets)
    /\ pc' = "done"
    /\ UNCHANGED <<doc, spectra, filters, predicates, cursor, evq, line, wrote_line,
                   offset, binary_arrays, spectrum_offsets, fin, fout>>

(***************************************************************************)
(* The rewrite of one input file under one configuration.                  *)
(***************************************************************************)
Init ==
    /\ \E n \in 0..MaxSpectra, shape \in Shapes, cut \in 0..MaxCut :
         \E kinds \in [1..n -> SpectrumKinds] :
            /\ cut <= Len(FullDoc(n, shape))
            /\ doc = Prefix(InputDoc(n, shape, kinds), Len(FullDoc(n, shape)) - cut)
            /\ spectra = [i \in 1..n |-> SpectrumElem(i, kinds[i])]
    /\ filters \in FilterConfigs
    /\ predicates \in PredicateConfigs
    /\ cursor = 0
    /\ evq = <<>>
    /\ line = 0
    /\ wrote_line = FALSE
    /\ pc = "start"
    /\ offset = 0
    /\ binary_arrays = << >>
    /\ out = <<>>
    /\ spectrum_offsets = <<>>
    /\ fin = NoCall
    /\ fout = NoCall

Next ==
    \/ ProcessHeaderStart
    \/ HeaderAdvance
    \/ HeaderEof
    \/ HeaderStartMzML
    \/ HeaderOtherEvent
    \/ BodyAdvance
    \/ BodyEof
    \/ BodyEndMzML
    \/ BodyStartSpectrum
    \/ BodyOtherEvent
    \/ ParseAdvance
    \/ ParseEof
    \/ ParseEndArray
    \/ ParseOtherEvent
    \/ ParseEndSpectrum
    \/ WriteIndexAndEnd

Spec == Init /\ [][Next]_vars

\* the rewrite of an input file that may hold malformed spectrum elements
MalformedInit ==
    /\ \E n \in 0..MaxSpectra, shape \in Shapes, cut \in 0..MaxCut :
         \E kinds \in [1..n -> MalformedKinds] :
            /\ cut <= Len(FullDoc(n, shape))
            /\ doc = Prefix(InputDoc(n, shape, kinds), Len(FullDoc(n, shape)) - cut)
            /\ spectra = [i \in 1..n |-> SpectrumElem(i, kinds[i])]
    /\ filters \in FilterConfigs
    /\ predicates = <<>>
    /\ cursor = 0
    /\ evq = <<>>
    /\ line = 0
    /\ wrote_line = FALSE
    /\ pc = "start"
    /\ offset = 0
    /\ binary_arrays = << >>
    /\ out = <<>>
    /\ spectrum_offsets = <<>>
    /\ fin = NoCall
    /\ fout = NoCall

MalformedSpec == MalformedInit /\ [][Next]_vars

(***************************************************************************)
(* processing/filters.py: the predicates and filters, applied on their own *)
(***************************************************************************)
\* IndexPredicate.__init__ and IndexPredicate.apply
IndexPredicateMaxOffByOne(min_index, count) == min_index + count

IndexPredicateMax(min_index, count) == min_index + count - 1

IndexPredicateApply(p, index) ==
    p.min_index <= index /\ index <= IndexPredicateMax(p.min_index, p.count)

\* MsLevelFilter.apply
MsLevelFilterApply(p, level) == p.ms_level = level

\* numpy: a[mask] for a boolean mask of the length of a
RECURSIVE Masked(_, _)
Masked(a, mask) ==
    IF a = <<>> THEN <<>>
    ELSE (IF Head(mask) THEN <<Head(a)>> ELSE <<>>) \o Masked(Tail(a), Tail(mask))

\* np.convolve(b, np.ones((3,)) / 3, mode='valid'), times 3: the shorter
\* argument slides over the longer one, so that for fewer than 3 samples
\* the result has 3 - n + 1 entries, each the number of true samples
ConvolveValid(b) ==
    LET n == Len(b)
        one(i) == IF b[i] THEN 1 ELSE 0
    IN IF n >= 3 THEN [i \in 1..(n - 2) |-> one(i) + one(i + 1) + one(i + 2)]
       ELSE [i \in 1..(4 - n) |-> IF n = 1 THEN one(1) ELSE one(1) + one(2)]

\* collapse_zero_intensity_mut on the samples that are > 0: the mask cv > 0;
\* np.convolve raises ValueError for an empty array
CollapseMask(b) ==
    IF b = <<>> THEN [ok |-> FALSE, mask |-> <<>>]
    ELSE LET cv == <<3>> \o ConvolveValid(b) \o <<3>>
         IN [ok |-> TRUE, mask |-> [i \in 1..Len(cv) |-> cv[i] > 0]]

\* mz[cv > 0] and intensity[cv > 0]: a mask of another length than the
\* array raises IndexError
Collapse(mz, intensity, b) ==
    LET m == CollapseMask(b)
    IN IF m.ok /\ Len(m.mask) = Len(mz) /\ Len(m.mask) = Len(intensity)
       THEN [ok |-> TRUE, mz |-> Masked(mz, m.mask),
             intensity |-> Masked(intensity, m.mask)]
       ELSE [ok |-> FALSE, mz |-> mz, intensity |-> intensity]

\* filters.py ElectricNoiseFilter.apply_mut: samples below the threshold are
\* set to zero, the others are left as they are
ElectricNoise(intensity, k) ==
    IF Positive(intensity) = <<>> THEN [ok |-> FALSE, intensity |-> intensity]
    ELSE LET threshold == k * MinOf(Positive(intensity))
         IN [ok |-> TRUE,
             intensity |-> [i \in 1..Len(intensity) |->
                              IF intensity[i] < threshold THEN 0 ELSE intensity[i]]]

\* math.floor(a / b) and math.ceil(a / b) for b > 0
Floor(a, b) == a \div b
Ceil(a, b) == -((-a) \div b)

\* np.arange(lo, hi, step): lo, lo + step, ... below hi
Arange(lo, hi, step) ==
    LET n == IF hi > lo THEN Ceil(hi - lo, step) ELSE 0
    IN [i \in 1..n |-> lo + (i - 1) * step]

\* np.interp(x, xp, fp) for increasing xp; fp holds fractions <<num, den>>
Interp(x, xp, fp) ==
    IF x <= xp[1] THEN fp[1]
    ELSE IF x >= xp[Len(xp)] THEN fp[Len(xp)]
    ELSE LET j == CHOOSE j \in 1..(Len(xp) - 1) : xp[j] <= x /\ x < xp[j + 1]
             dx == xp[j + 1] - xp[j]
             y0 == fp[j]
             y1 == fp[j + 1]
         IN << y0[1] * y1[2] * dx + (y1[1] * y0[2] - y0[1] * y1[2]) * (x - xp[j]),
               y0[2] * y1[2] * dx >>

\* ResamplerFilter.apply_mut, lines 147-151: the two ends given to np.arange
ResamplerMinMz(central_mz, sampling_rate, mz) ==
    central_mz - Floor(central_mz - MinOf(mz), sampling_rate) * sampling_rate

ResamplerMaxMz(central_mz, sampling_rate, mz) ==
    central_mz + Ceil(MaxOf(mz) - central_mz, sampling_rate) * sampling_rate

\* ResamplerFilter.apply_mut: min() of an empty m/z array raises ValueError
Resample(central_mz, sampling_rate, mz, intensity) ==
    IF mz = <<>> THEN [ok |-> FALSE, grid |-> <<>>, mz |-> mz, intensity |-> intensity]
    ELSE LET new_mz == Arange(ResamplerMinMz(central_mz, sampling_rate, mz),
                              ResamplerMaxMz(central_mz, sampling_rate, mz),
                              sampling_rate)
             new_intensity == [i \in 1..Len(new_mz) |-> Interp(new_mz[i], mz, intensity)]
             c == Collapse(new_mz, new_intensity,
                           [i \in 1..Len(new_mz) |-> new_intensity[i][1] > 0])
         IN [ok |-> c.ok, grid |-> new_mz, mz |-> c.mz, intensity |-> c.intensity]

(***************************************************************************)
(* The inputs the filters and predicates are applied to.                   *)
(***************************************************************************)
SeqsUpTo(S, lo, hi) == UNION { [1..n -> S] : n \in lo..hi }

Increasing(s) == \A i \in 1..(Len(s) - 1) : s[i] < s[i + 1]

Ramp(n) == [i \in 1..n |-> 10 * i]

\* the scenario of the noise-floor filter: multiplier 3 on [1, 2, 9, 0, 3]
NoiseScenario == [fn |-> "electric", k |-> 3, intensity |-> <<1, 2, 9, 0, 3>>]

\* the scenario of the resampler: central m/z 800, step 1, m/z values
\* spanning [798.4, 802.1], in tenths
ResampleScenario ==
    [fn |-> "resample", central_mz |-> 8000, sampling_rate |-> 10,
     mz |-> <<7984, 7995, 8021>>, intensity |-> << <<5, 1>>, <<0, 1>>, <<2, 1>> >>]

IndexCalls ==
    { [fn |-> "index", min_index |-> m, count |-> c, n |-> n] :
        m \in 0..MaxIndex, c \in 0..MaxIndex, n \in 0..MaxStream }

CollapseCalls ==
    { [fn |-> "collapse", mz |-> Ramp(Len(a)), intensity |-> a] :
        a \in SeqsUpTo(0..MaxVal, 1, MaxLen) }

ElectricCalls ==
    { [fn |-> "electric", k |-> k, intensity |-> a] :
        k \in 1..MaxK, a \in SeqsUpTo(0..MaxVal, 1, MaxLen) } \cup {NoiseScenario}

ResampleCalls ==
    { [fn |-> "resample", central_mz |-> 4, sampling_rate |-> s, mz |-> x,
       intensity |-> [i \in 1..Len(x) |-> <<a[i], 1>>]] :
        s \in {2, 3},
        x \in { y \in SeqsUpTo(0..MaxMz, 2, 3) : Increasing(y) },
        a \in [1..3 -> 0..1] } \cup {ResampleScenario}

Calls == IndexCalls \cup CollapseCalls \cup ElectricCalls \cup ResampleCalls

FirstResult(call) ==
    IF call.fn = "index" THEN [fn |-> "index", next |-> 0, retained |-> <<>>]
    ELSE IF call.fn = "resample"
    THEN [fn |-> "resample", passes |-> 0, ok |-> TRUE, mz |-> call.mz,
          intensity |-> call.intensity, grids |-> <<>>]
    ELSE [fn |-> "pending"]

\* the predicate is applied to the next spectrum of the stream
ApplyIndexPredicate ==
    /\ fin.fn = "index" /\ fout.next < fin.n
    /\ fout' = [fout EXCEPT
                  !.next = @ + 1,
                  !.retained = IF IndexPredicateApply(fin, fout.next)
                               THEN Append(@, fout.next) ELSE @]
    /\ UNCHANGED <<engineVars, fin>>

ApplyCollapse ==
    /\ fin.fn = "collapse" /\ fout.fn = "pending"
    /\ fout' = [fn |-> "collapse"] @@
               Collapse(fin.mz, fin.intensity,
                        [i \in 1..Len(fin.intensity) |-> fin.intensity[i] > 0])
    /\ UNCHANGED <<engineVars, fin>>

\* the filter of filters.py
ApplyElectricNoise ==
    /\ fin.fn = "electric" /\ fout.fn = "pending"
    /\ fout' = [fn |-> "electric", by |-> "filters"] @@
               ElectricNoise(fin.intensity, fin.k)
    /\ UNCHANGED <<engineVars, fin>>

\* the filter of processor.py, the one process_mzml and process_file use
ApplyProcessorElectricNoise ==
    /\ fin.fn = "electric" /\ fout.fn = "pending"
    /\ fout' = [fn |-> "electric", by |-> "processor"] @@
               ProcessorElectricNoise(fin.intensity, fin.k)
    /\ UNCHANGED <<engineVars, fin>>

\* the resampler is applied to the spectrum the last application left
ApplyResampler ==
    /\ fin.fn = "resample" /\ fout.ok /\ fout.passes < 2
    /\ LET r == Resample(fin.central_mz, fin.sampling_rate, fout.mz, fout.intensity)
       IN fout' = [fn |-> "resample", passes |-> fout.passes + 1, ok |-> r.ok,
                   mz |-> r.mz, intensity |-> r.intensity,
                   grids |-> Append(fout.grids, r.grid)]
    /\ UNCHANGED <<engineVars, fin>>

FilterInit ==
    /\ fin \in Calls
    /\ fout = FirstResult(fin)
    /\ doc = <<>>
    /\ spectra = <<>>
    /\ filters = <<>>
    /\ predicates = <<>>
    /\ cursor = 0
    /\ evq = <<>>
    /\ line = 0
    /\ wrote_line = FALSE
    /\ pc = "idle"
    /\ offset = 0
    /\ binary_arrays = << >>
    /\ out = <<>>
    /\ spectrum_offsets = <<>>

FilterNext ==
    \/ ApplyIndexPredicate
    \/ ApplyCollapse
    \/ ApplyElectricNoise
    \/ ApplyProcessorElectricNoise
    \/ ApplyResampler

FilterSpec == FilterInit /\ [][FilterNext]_vars

(***************************************************************************)
(* Properties of the rewrite (checked under Spec and MalformedSpec).       *)
(***************************************************************************)
SpectrumChunksAt == { k \in 1..Len(out) : out[k].kind = "spectrum" }

Ordinal(k) == Cardinality({ j \in SpectrumChunksAt : j <= k })

SpectrumChunkSeq == SelectSeq(out, LAMBDA c : c.kind = "spectrum")

TrailerKinds == {"indexListOpen", "indexOpen", "offset", "indexClose",
                 "indexListClose", "indexListOffset", "wrapperClose"}

TrailerChunksAt == { k \in 1..Len(out) : out[k].kind \in TrailerKinds }

\* the input holds the closing </mzML> tag
CompleteInput ==
    \E l \in 1..Len(doc) : \E j \in 1..Len(doc[l].events) :
        doc[l].events[j].action = "end" /\ doc[l].events[j].tag = "mzML"

PredicateHolds(p, e) ==
    IF p.type = "mslevel" THEN MsLevelFilterApply(p, e.level)
    ELSE IndexPredicateApply(p, e.index)

Accepted(e) == \A i \in 1..Len(predicates) : PredicateHolds(predicates[i], e)

RECURSIVE OfLevel(_, _)
OfLevel(i, L) ==
    IF i > Len(spectra) THEN <<>>
    ELSE (IF spectra[i].level = L THEN <<i>> ELSE <<>>) \o OfLevel(i + 1, L)

RECURSIVE Between(_, _, _, _)
Between(i, n, lo, hi) ==
    IF i >= n THEN <<>>
    ELSE (IF lo <= i /\ i < hi THEN <<i>> ELSE <<>>) \o Between(i + 1, n, lo, hi)

\* C6: over a stream of consecutive indices IndexPredicate(min_index, count)
\* retains exactly the indices in [min_index, min_index + count - 1], and
\* nothing when count is 0
C6_IndexRange ==
    fin.fn = "index" =>
        /\ fout.retained = Between(0, fout.next, fin.min_index, fin.min_index + fin.count)
        /\ fin.count = 0 => fout.retained = <<>>

C6_Witness ==
    /\ fin.fn = "index"
    /\ fout.next = fin.n
    /\ fin.min_index >= 1
    /\ fin.count >= 2
    /\ Len(fout.retained) = fin.count
    /\ fin.n > fin.min_index + fin.count

\* C7: collapse_zero_intensity_mut completes for every length >= 1 and
\* keeps the first and last sample and exactly those interior samples for
\* which the sample or a neighbour is > 0
C7_CollapseKeeps ==
    fout.fn = "collapse" =>
        LET n == Len(fin.intensity)
            keep == [i \in 1..n |->
                       \/ i = 1
                       \/ i = n
                       \/ fin.intensity[i] > 0
                       \/ fin.intensity[i - 1] > 0
                       \/ fin.intensity[i + 1] > 0]
        IN /\ fout.ok
           /\ fout.mz = Masked(fin.mz, keep)
           /\ fout.intensity = Masked(fin.intensity, keep)
           /\ Len(fout.mz) = Len(fout.intensity)

\* C8: the noise-floor filter the processing entry point uses sets the
\* samples below k times the least positive sample to zero and leaves the
\* others unchanged; multiplier 3 on [1, 2, 9, 0, 3] gives [0, 0, 9, 0, 3]
C8_NoiseFloorZeroesOnly ==
    (fout.fn = "electric" /\ fout.by = "processor" /\ Positive(fin.intensity) # <<>>) =>
        /\ fout.ok
        /\ Len(fout.intensity) = Len(fin.intensity)
        /\ \A i \in 1..Len(fin.intensity) :
              fout.intensity[i] =
                 IF fin.intensity[i] < fin.k * MinOf(Positive(fin.intensity))
                 THEN 0 ELSE fin.intensity[i]
        /\ fin = NoiseScenario => fout.intensity = <<0, 0, 9, 0, 3>>

\* C9: every grid point of the resampler differs from central_mz by a
\* multiple of the step and the grid covers the observed m/z range; on the
\* scenario the grid starts at 798 and contains 802
C9_GridCoversRange ==
    (fout.fn = "resample" /\ fout.passes = 1) =>
        LET g == fout.grids[1]
        IN /\ g # <<>>
           /\ \A i \in 1..Len(g) : (g[i] - fin.central_mz) % fin.sampling_rate = 0
           /\ g[1] <= MinOf(fin.mz)
           /\ g[Len(g)] >= MaxOf(fin.mz)
           /\ fin = ResampleScenario =>
                 /\ g[1] = 7980
                 /\ \E i \in 1..Len(g) : g[i] = 8020

\* C10: a second application of the resampler with the same parameters
\* yields the grid of the first
C10_ResampleIdempotent ==
    (fout.fn = "resample" /\ fout.passes = 2) => fout.grids[2] = fout.grids[1]

\* the spectrum element i starts in the input
InInput(i) ==
    \E l \in 1..Len(doc) : \E j \in 1..Len(doc[l].events) :
        /\ doc[l].events[j].action = "start"
        /\ doc[l].events[j].tag = "spectrum"
        /\ doc[l].events[j].sp = i

Malformed(e) == e.defect # "none"

Cv(accession, name, cv_ref) == [accession |-> accession, name |-> name, cv_ref |-> cv_ref]

\* CvList
ms_level == Cv("MS:1000511", "MS level", "MS")
scan_start_time == Cv("MS:1000016", "scan start time", "MS")
unit_mz == Cv("MS:1000040", "m/z", "MS")
unit_minute == Cv("UO:0000031", "minute", "UO")
unit_second == Cv("UO:0000010", "second", "UO")

None == "None"

\* the unit of a record that has none
NoCv == Cv(None, None, None)

\* a value handed to add_cv is a number, a string or None; str(value)
NoValue == [t |-> "none"]
StrOf(value) == IF value.t = "int" THEN Str(value.v) ELSE value.v

CvParam(inNs, accession, name, value, unitAccession, unitName, unitCvRef) ==
    [tag |-> "cvParam", ns |-> inNs, accession |-> accession, name |-> name,
     value |-> value, unitAccession |-> unitAccession, unitName |-> unitName,
     unitCvRef |-> unitCvRef]

\* a cvParam element as the parser builds it from the input
ParsedCvParam(cv, value, unit) ==
    IF unit = NoCv
    THEN CvParam(TRUE, cv.accession, cv.name, value, None, None, None)
    ELSE CvParam(TRUE, cv.accession, cv.name, value, unit.accession, unit.name,
                 unit.cv_ref)

OtherChild(tag) == CvParam(TRUE, None, None, None, None, None, None) @@ [tag |-> tag]

\* the xpath ns:cvParam[@accession="..."]: the children named cvParam in
\* the mzML namespace with that accession
Matches(child, accession) ==
    child.tag = "cvParam" /\ child.ns /\ child.accession = accession

\* get_cv: the first match, 0 standing for None
GetCv(elem, cv) ==
    IF \E i \in 1..Len(elem) : Matches(elem[i], cv.accession)
    THEN CHOOSE i \in 1..Len(elem) :
            /\ Matches(elem[i], cv.accession)
            /\ \A j \in 1..(i - 1) : ~Matches(elem[j], cv.accession)
    ELSE 0

\* get_cv_record: cv_elem.attrib of None raises AttributeError
GetCvRecord(elem, cv) ==
    LET i == GetCv(elem, cv)
    IN IF i = 0 THEN [ok |-> FALSE, cv |-> cv, unit_cv |-> NoCv, value |-> None]
       ELSE [ok |-> TRUE, cv |-> cv,
             unit_cv |-> IF elem[i].unitAccession # None
                         THEN Cv(elem[i].unitAccession, elem[i].unitName,
                                 elem[i].unitCvRef)
                         ELSE NoCv,
             value |-> elem[i].value]

HasCv(elem, cv) == GetCv(elem, cv) # 0

\* remove_cv: the first match is removed
RemoveCv(elem, cv) ==
    LET i == GetCv(elem, cv)
    IN IF i # 0
       THEN [removed |-> TRUE,
             elem |-> [j \in 1..(Len(elem) - 1) |->
                         IF j < i THEN elem[j] ELSE elem[j + 1]]]
       ELSE [removed |-> FALSE, elem |-> elem]

\* add_cv: etree.Element('cvParam', attrib, nsmap=ns, prefix='ns') builds an
\* element whose tag has no namespace; unitCvRef is always 'MS'
AddCv(elem, cv, value, unit) ==
    << CvParam(FALSE, cv.accession, cv.name,
               IF value.t = "none" THEN None ELSE StrOf(value),
               IF unit = NoCv THEN None ELSE unit.accession,
               IF unit = NoCv THEN None ELSE unit.name,
               IF unit = NoCv THEN None ELSE "MS") >>
    \o RemoveCv(elem, cv).elem

CvCalls ==
    { [fn |-> "cv", elem |-> e, cv |-> c, value |-> v, unit_cv |-> u] :
        e \in SeqsUpTo({ ParsedCvParam(ms_level, "1", NoCv),
                         ParsedCvParam(scan_start_time, "90", unit_second),
                         ParsedCvParam(scan_start_time, "3", unit_minute),
                         OtherChild("binary") }, 0, MaxChildren),
        c \in {ms_level, scan_start_time},
        v \in {NoValue, [t |-> "int", v |-> 2], [t |-> "str", v |-> "1.5"]},
        u \in {NoCv, unit_mz, unit_minute, unit_second} }

\* each step applies one annotation function to the element and logs the
\* function and what it returned

CvAdd ==
    /\ fin.fn = "cv" /\ Len(fout.log) < MaxOps
    /\ fout' = [fn |-> "cv",
                elem |-> AddCv(fout.elem, fin.cv, fin.value, fin.unit_cv),
                log |-> Append(fout.log, [op |-> "add", res |-> None])]
    /\ UNCHANGED <<engineVars, fin>>

\* get_cv_record raises on a term that is not found: nothing follows
CvGetRecord ==
    /\ fin.fn = "cv" /\ Len(fout.log) < MaxOps
    /\ \A i \in 1..Len(fout.log) : fout.log[i].op = "get" => fout.log[i].res.ok
    /\ fout' = [fout EXCEPT !.log = Append(@, [op |-> "get", res |-> GetCvRecord(fout.elem, fin.cv)])]
    /\ UNCHANGED <<engineVars, fin>>

CvRemove ==
    /\ fin.fn = "cv" /\ Len(fout.log) < MaxOps
    /\ \A i \in 1..Len(fout.log) : fout.log[i].op = "get" => fout.log[i].res.ok
    /\ LET r == RemoveCv(fout.elem, fin.cv)
       IN fout' = [fn |-> "cv", elem |-> r.elem,
                   log |-> Append(fout.log, [op |-> "remove", res |-> r.removed])]
    /\ UNCHANGED <<engineVars, fin>>

CvInit ==
    /\ fin \in CvCalls
    /\ fout = [fn |-> "cv", elem |-> fin.elem, log |-> <<>>]
    /\ doc = <<>>
    /\ spectra = <<>>
    /\ filters = <<>>
    /\ predicates = <<>>
    /\ cursor = 0
    /\ evq = <<>>
    /\ line = 0
    /\ wrote_line = FALSE
    /\ pc = "idle"
    /\ offset = 0
    /\ binary_arrays = << >>
    /\ out = <<>>
    /\ spectrum_offsets = <<>>

CvNext ==
    \/ CvAdd
    \/ CvGetRecord
    \/ CvRemove

CvSpec == CvInit /\ [][CvNext]_vars

(***************************************************************************)
(* Properties of the annotation functions (checked under CvSpec).          *)
(***************************************************************************)
\* C11: add_cv followed by get_cv_record returns the string form of the
\* value and a unit equal to the unit added; after add_cv the new
\* annotation is the first child and no other annotation of the term is left
C11_AddGetRoundTrip ==
    (/\ fin.fn = "cv"
     /\ Len(fout.log) = 2
     /\ fout.log[1].op = "add"
     /\ fout.log[2].op = "get") =>
        /\ fout.log[2].res.ok
        /\ fout.log[2].res.value =
              (IF fin.value.t = "none" THEN None ELSE StrOf(fin.value))
        /\ fout.log[2].res.unit_cv = fin.unit_cv
        /\ fout.elem[1].tag = "cvParam"
        /\ fout.elem[1].accession = fin.cv.accession
        /\ \A i \in 2..Len(fout.elem) :
              ~(fout.elem[i].tag = "cvParam" /\ fout.elem[i].accession = fin.cv.accession)

\* C12: get_cv_record and remove_cv on a term the element does not carry
\* raise nothing, report absence and leave the element unchanged
C12_AbsentTermIsNoError ==
    (/\ fin.fn = "cv"
     /\ Len(fout.log) = 1
     /\ fout.log[1].op \in {"get", "remove"}
     /\ ~HasCv(fin.elem, fin.cv)) =>
        /\ fout.elem = fin.elem
        /\ fout.log[1].op = "get" => fout.log[1].res.ok
        /\ fout.log[1].op = "remove" => fout.log[1].res = FALSE

(***************************************************************************)
(* mzxml.py: fix_mz_ranges and validate.  An input line carries what the   *)
(* line patterns look at: what it holds, the white space in front of it,   *)
(* its byte length and, for a line that ends a <peaks> element, the m/z    *)
(* values of the payload.                                                  *)
(***************************************************************************)
XLine(type, indent, len, mzs) == [type |-> type, indent |-> indent, len |-> len, mzs |-> mzs]

\* LinePatterns.SCAN_START: \s*<scan
ScanStartMatches(l) == l.type = "scan"

\* LinePatterns.SCAN_END: \s+</scan>
ScanEndMatches(l) == l.type = "/scan" /\ l.indent >= 1

\* LinePatterns.MS_RUN_END: \s+</msRun>
MsRunEndMatches(l) == l.type = "/msRun" /\ l.indent >= 1

\* line.endswith('</peaks>\n')
EndsWithPeaks(l) == l.type = "peaks"

NoStats == [ok |-> FALSE]

\* get_peaks_min_max: min() of an empty array raises ValueError
GetPeaksMinMax(l) ==
    IF l.mzs = <<>> THEN NoStats
    ELSE [ok |-> TRUE, low_mz |-> MinOf(l.mzs), high_mz |-> MaxOf(l.mzs)]

\* write_scan_lines: the first line loses its leading white space and gets
\* the lowMz and highMz attributes (the text of a bound: its digits, the
\* point and one decimal); the other lines are written as they are.
\* A chunk carries the byte positions, relative to its start, where the
\* text '<scan' begins in it.
XChunk(kind, len, scans) == [kind |-> kind, len |-> len, scans |-> scans]

XLineChunk(l) == XChunk("line", l.len, IF l.type = "scan" THEN {l.indent} ELSE {})

WriteScanLines(lines, scan_lines, min_max) ==
    LET first == lines[scan_lines[1]]
    IN << XChunk("line",
                 first.len - first.indent + 21 + Digits(min_max.low_mz)
                 + Digits(min_max.high_mz), {0}) >>
       \o [k \in 1..(Len(scan_lines) - 1) |-> XLineChunk(lines[scan_lines[k + 1]])]

\* write_scan_offsets
WriteScanOffsets(scan_offsets) ==
    << XChunk("index", 20, {}) >>
    \o [i \in 1..Len(scan_offsets) |->
          XChunk("offset", 25 + Digits(i) + Digits(scan_offsets[i]), {})
          @@ [id |-> i, value |-> scan_offsets[i]]]
    \o << XChunk("/index", 9, {}) >>

\* the byte positions of the '<scan' texts of the output
ScanPositions(o) ==
    UNION { { StartOf(o, k) + d : d \in o[k].scans } : k \in 1..Len(o) }

\* validate: every line that looks like an offset line must address a
\* '<scan', and the <indexOffset> value an '<index'; without <indexOffset>
\* line f.seek(None) raises TypeError
Validate(o) ==
    LET offsets == { k \in 1..Len(o) : o[k].kind = "offset" }
        indexOffsets == { k \in 1..Len(o) : o[k].kind = "indexOffset" }
        indexes == { StartOf(o, k) : k \in { j \in 1..Len(o) : o[j].kind = "index" } }
    IN IF \E k \in offsets : o[k].value \notin ScanPositions(o) THEN "AssertionError"
       ELSE IF indexOffsets = {} THEN "TypeError"
       ELSE IF \E k \in indexOffsets : o[k].value \notin indexes THEN "AssertionError"
       ELSE "ok"

\* the lines of one scan element
ScanLines(i, shape) ==
    IF shape = "flat"
    THEN << XLine("scan", 4, 40 + i, <<>>), XLine("peaks", 6, 60, <<300 + i, 900>>),
            XLine("/scan", 4, 12, <<>>) >>
    ELSE IF shape = "nested"
    THEN << XLine("scan", 4, 40 + i, <<>>), XLine("peaks", 6, 60, <<300 + i, 900>>),
            XLine("scan", 6, 45, <<>>), XLine("peaks", 8, 50, <<100, 150 + i>>),
            XLine("/scan", 6, 14, <<>>), XLine("/scan", 4, 12, <<>>) >>
    ELSE IF shape = "flush close"
    THEN << XLine("scan", 0, 36 + i, <<>>), XLine("peaks", 0, 54, <<300 + i, 900>>),
            XLine("/scan", 0, 8, <<>>) >>
    ELSE IF shape = "no peaks"
    THEN << XLine("scan", 4, 40 + i, <<>>), XLine("other", 6, 30, <<>>),
            XLine("/scan", 4, 12, <<>>) >>
    ELSE << XLine("scan", 4, 40 + i, <<>>), XLine("peaks", 6, 20, <<>>),
            XLine("/scan", 4, 12, <<>>) >>

RECURSIVE ScanSeq(_, _)
ScanSeq(i, shapes) ==
    IF i > Len(shapes) THEN <<>>
    ELSE ScanLines(i, shapes[i]) \o ScanSeq(i + 1, shapes)

\* an mzXML file with its own index after </msRun>
MzxmlDoc(shapes) ==
    << XLine("other", 0, 44, <<>>), XLine("other", 2, 30, <<>>) >>
    \o ScanSeq(1, shapes)
    \o << XLine("/msRun", 2, 11, <<>>), XLine("other", 2, 22, <<>>),
          XLine("other", 0, 9, <<>>) >>

MzxmlCalls ==
    { [fn |-> "mzxml", lines |-> MzxmlDoc(shapes)] :
        shapes \in SeqsUpTo({"flat", "nested", "flush close", "no peaks", "empty peaks"},
                            0, MaxScans) }

\* the state of fix_mz_ranges before in_file's line i + 1 is read
InLoop == fin.fn = "mzxml" /\ fout.st = "loop" /\ fout.i < Len(fin.lines)

\* lines 88-99: a line read while a scan is being collected
FixScanLine ==
    /\ InLoop /\ fout.scan_lines # <<>>
    /\ LET l == fin.lines[fout.i + 1]
           scan_lines == Append(fout.scan_lines, fout.i + 1)
           stats == IF EndsWithPeaks(l) THEN GetPeaksMinMax(l) ELSE fout.peak_stats
       IN IF EndsWithPeaks(l) /\ ~stats.ok
          THEN fout' = [fout EXCEPT !.i = @ + 1, !.scan_lines = scan_lines, !.st = "error"]
          ELSE IF ~ScanEndMatches(l)
          THEN fout' = [fout EXCEPT !.i = @ + 1, !.scan_lines = scan_lines,
                                    !.peak_stats = stats]
          ELSE IF ~stats.ok
          THEN fout' = [fout EXCEPT !.i = @ + 1, !.scan_lines = scan_lines,
                                    !.scan_offsets = Append(@, Tell(fout.out)),
                                    !.st = "error"]
          ELSE fout' = [fout EXCEPT !.i = @ + 1, !.scan_lines = <<>>,
                                    !.peak_stats = stats,
                                    !.scan_offsets = Append(@, Tell(fout.out)),
                                    !.out = @ \o WriteScanLines(fin.lines, scan_lines, stats)]
    /\ UNCHANGED <<engineVars, fin>>

\* lines 101-103
FixScanStart ==
    /\ InLoop /\ fout.scan_lines = <<>>
    /\ ScanStartMatches(fin.lines[fout.i + 1])
    /\ fout' = [fout EXCEPT !.i = @ + 1, !.scan_lines = <<fout.i + 1>>]
    /\ UNCHANGED <<engineVars, fin>>

\* lines 104-112
FixMsRunEnd ==
    /\ InLoop /\ fout.scan_lines = <<>>
    /\ ~ScanStartMatches(fin.lines[fout.i + 1])
    /\ MsRunEndMatches(fin.lines[fout.i + 1])
    /\ LET o == Append(fout.out, XLineChunk(fin.lines[fout.i + 1]))
           index_offset == Tell(o)
       IN fout' = [fout EXCEPT !.i = @ + 1, !.st = "done",
                               !.index_offset = index_offset,
                               !.out = o \o WriteScanOffsets(fout.scan_offsets)
                                         \o << XChunk("indexOffset", 27 + Digits(index_offset), {})
                                               @@ [value |-> index_offset],
                                               XChunk("sha1", 55, {}),
                                               XChunk("/mzXML", 8, {}) >>]
    /\ UNCHANGED <<engineVars, fin>>

\* lines 113-114
FixCopyLine ==
    /\ InLoop /\ fout.scan_lines = <<>>
    /\ ~ScanStartMatches(fin.lines[fout.i + 1])
    /\ ~MsRunEndMatches(fin.lines[fout.i + 1])
    /\ fout' = [fout EXCEPT !.i = @ + 1,
                            !.out = Append(@, XLineChunk(fin.lines[fout.i + 1]))]
    /\ UNCHANGED <<engineVars, fin>>

\* the input ends: the loop ends and the files are closed
FixEof ==
    /\ fin.fn = "mzxml" /\ fout.st = "loop" /\ fout.i = Len(fin.lines)
    /\ fout' = [fout EXCEPT !.st = "done"]
    /\ UNCHANGED <<engineVars, fin>>

\* validate(out_filename) on the file fix_mz_ranges wrote
ValidateOutput ==
    /\ fin.fn = "mzxml" /\ fout.st = "done" /\ fout.valid = "not run"
    /\ fout' = [fout EXCEPT !.valid = Validate(fout.out)]
    /\ UNCHANGED <<engineVars, fin>>

MzxmlInit ==
    /\ fin \in MzxmlCalls
    /\ fout = [fn |-> "mzxml", i |-> 0, scan_lines |-> <<>>, scan_offsets |-> <<>>,
               peak_stats |-> NoStats, index_offset |-> -1, out |-> <<>>,
               st |-> "loop", valid |-> "not run"]
    /\ doc = <<>>
    /\ spectra = <<>>
    /\ filters = <<>>
    /\ predicates = <<>>
    /\ cursor = 0
    /\ evq = <<>>
    /\ line = 0
    /\ wrote_line = FALSE
    /\ pc = "idle"
    /\ offset = 0
    /\ binary_arrays = << >>
    /\ out = <<>>
    /\ spectrum_offsets = <<>>

MzxmlNext ==
    \/ FixScanLine
    \/ FixScanStart
    \/ FixMsRunEnd
    \/ FixCopyLine
    \/ FixEof
    \/ ValidateOutput

MzxmlSpec == MzxmlInit /\ [][MzxmlNext]_vars

(***************************************************************************)
(* Properties of the mzXML fix (checked under MzxmlSpec).                  *)
(***************************************************************************)
\* the byte positions of the '<scan' texts of the output, in file order
RECURSIVE Sorted(_)
Sorted(S) ==
    IF S = {} THEN <<>>
    ELSE LET m == CHOOSE x \in S : \A y \in S : x <= y
         IN <<m>> \o Sorted(S \ {m})

\* C14: once fix_mz_ranges has written its output, the i-th entry of the
\* scan index has id i and the byte position of the '<scan' of the i-th
\* scan of the output, every scan of the output has one entry, the
\* <indexOffset> value is the byte position of '<index', and validate
\* accepts the output
C14_ScanIndexExact ==
    (fin.fn = "mzxml" /\ fout.st = "done" /\ fout.valid # "not run") =>
        LET o == fout.out
            entries == SelectSeq(o, LAMBDA c : c.kind = "offset")
            scans == Sorted(ScanPositions(o))
        IN /\ Len(entries) = Len(scans)
           /\ \A i \in 1..Len(entries) :
                 entries[i].id = i /\ entries[i].value = scans[i]
           /\ \E k \in 1..Len(o) :
                 o[k].kind = "indexOffset" /\ k > 1
                 /\ \E j \in 1..(k - 1) : o[j].kind = "index" /\ StartOf(o, j) = o[k].value
           /\ fout.valid = "ok"

(***************************************************************************)
(* Further properties of the rewrite (checked under Spec).                 *)
(***************************************************************************)
\* the input lines that hold the opening and the closing mzML tag
LineOf(action, tag) ==
    CHOOSE l \in 1..Len(doc) : \E j \in 1..Len(doc[l].events) :
        doc[l].events[j].action = action /\ doc[l].events[j].tag = tag

LineChunkSeq == SelectSeq(out, LAMBDA c : c.kind = "line")

\* C15: the lines copied to the output are the input lines from the opening
\* to the closing mzML tag that lie outside every spectrum subtree, each
\* once and in input order, whatever the number of tag events on a line;
\* no line of a spectrum subtree is copied
C15_BodyLinesVerbatim ==
    (pc \in {"index", "done"} /\ CompleteInput) =>
        LET want == Sorted({ l \in LineOf("start", "mzML")..LineOf("end", "mzML") :
                               doc[l].sp = 0 })
        IN /\ Len(LineChunkSeq) = Len(want)
           /\ \A k \in 1..Len(want) : LineChunkSeq[k].line = want[k]

\* the spectrum elements that parse_spectrum has returned
Returned == 1..Len(spectrum_offsets)

\* C16: a spectrum whose m/z array is empty after the filters is written,
\* without the lowest and highest observed m/z annotations, and the run
\* goes on
C16_EmptySpectrumWritten ==
    \A i \in Returned :
        spectra[i].mz = <<>> =>
            /\ pc # "error"
            /\ \E k \in SpectrumChunksAt :
                  out[k].sp = i /\ out[k].mz = <<>> /\ out[k].observed = <<>>

(***************************************************************************)
(* processing/data.py and processing/filters.py: one BinaryDataArray under *)
(* the filters that change its element type, and update_elem.  A buffer is *)
(* a sequence of 32-bit words in file order (little endian); the samples   *)
(* are taken from 0, 1 and 2, whose bit patterns are tabulated.            *)
(***************************************************************************)
Precisions == {"float32", "float64", "int32"}
Compressions == {"none", "zlib"}
Samples == {0, 1, 2}

\* a value that is none of the samples
Other == -1

\* the word of a float32 sample, and the high word of a float64 sample
\* (whose low word is 0)
Float32Bits(v) == IF v = 0 THEN 0 ELSE IF v = 1 THEN 1065353216 ELSE 1073741824
Float64High(v) == IF v = 0 THEN 0 ELSE IF v = 1 THEN 1072693248 ELSE 1073741824

\* ndarray.tobytes()
ToBytes(a) ==
    IF a.dtype = "float32" THEN [i \in 1..Len(a.vals) |-> Float32Bits(a.vals[i])]
    ELSE IF a.dtype = "int32" THEN a.vals
    ELSE [j \in 1..(2 * Len(a.vals)) |->
            IF j % 2 = 1 THEN 0 ELSE Float64High(a.vals[j \div 2])]

\* np.frombuffer(data, dtype): the words are read as elements of dtype; a
\* buffer that is no multiple of the element size raises ValueError
FromWord(w, dtype) ==
    IF dtype = "int32" THEN (IF w \in Samples THEN w ELSE Other)
    ELSE IF \E v \in Samples : Float32Bits(v) = w
         THEN CHOOSE v \in Samples : Float32Bits(v) = w
         ELSE Other

FromPair(lo, hi) ==
    IF lo = 0 /\ \E v \in Samples : Float64High(v) = hi
    THEN CHOOSE v \in Samples : Float64High(v) = hi
    ELSE Other

FromBuffer(words, dtype) ==
    IF dtype = "float64"
    THEN IF Len(words) % 2 = 1 THEN [ok |-> FALSE]
         ELSE [ok |-> TRUE, dtype |-> dtype,
               vals |-> [i \in 1..(Len(words) \div 2) |->
                           FromPair(words[2 * i - 1], words[2 * i])]]
    ELSE [ok |-> TRUE, dtype |-> dtype,
          vals |-> [i \in 1..Len(words) |-> FromWord(words[i], dtype)]]

\* ndarray.astype(dtype): each sample is representable in every element type
AsType(a, dtype) == [ok |-> TRUE, dtype |-> dtype, vals |-> a.vals]

precision_cv(precision) ==
    IF precision = "float32" THEN Cv("MS:1000521", "32-bit float", "MS")
    ELSE IF precision = "int32" THEN Cv("MS:1000519", "32-bit integer", "MS")
    ELSE Cv("MS:1000523", "64-bit float", "MS")

compression_cv(compression) ==
    IF compression = "none" THEN Cv("MS:1000576", "no compression", "MS")
    ELSE Cv("MS:1000574", "zlib compression", "MS")

data_kind_cv(kind) ==
    IF kind = "intensity" THEN Cv("MS:1000515", "intensity array", "MS")
    ELSE Cv("MS:1000514", "m/z array", "MS")

NoData == [ok |-> FALSE]

\* the BinaryDataArray that from_element builds from a binaryDataArray
\* element whose payload holds the samples vals under the given precision
\* and compression (zlib.decompress and b64decode give back the buffer)
ParsedArray(kind, precision, compression, vals) ==
    [kind |-> kind, precision |-> precision, compression |-> compression,
     data_raw |-> ToBytes([dtype |-> precision, vals |-> vals]),
     data |-> NoData,
     elem |-> << ParsedCvParam(precision_cv(precision), None, NoCv),
                 ParsedCvParam(compression_cv(compression), None, NoCv),
                 ParsedCvParam(data_kind_cv(kind), None, NoCv),
                 OtherChild("binary") >>,
     encodedLength |-> 0, text |-> 0, encoded |-> "None"]

\* the data property: the payload is decoded on first access, under the
\* precision the object has at that moment, and kept
Data(ba) ==
    IF ba.data.ok THEN [ok |-> TRUE, ba |-> ba]
    ELSE LET d == FromBuffer(ba.data_raw, ba.precision)
         IN [ok |-> d.ok, ba |-> [ba EXCEPT !.data = d]]

\* TypeFilter.apply_mut, for one of the two arrays
TypeFilterApply(ba, type) ==
    LET d == Data([ba EXCEPT !.precision = type])
    IN IF ~d.ok THEN d
       ELSE [ok |-> TRUE, ba |-> [d.ba EXCEPT !.data = AsType(d.ba.data, type)]]

\* CompressionFilter.apply_mut, for one of the two arrays
CompressionFilterApply(ba, compression) ==
    LET d == Data(ba)
    IN IF ~d.ok THEN d
       ELSE [ok |-> TRUE, ba |-> [d.ba EXCEPT !.compression = compression]]

\* AsFloat32Filter.to_f32: the precision field is left as it is
ToF32(ba) ==
    LET d == Data(ba)
    IN IF ~d.ok THEN d
       ELSE [ok |-> TRUE,
             ba |-> [d.ba EXCEPT
                       !.data = AsType(d.ba.data, "float32"),
                       !.elem = << CvParam(FALSE, "MS:1000521", "32-bit float", None,
                                           None, None, None) >>
                                \o SelectSeq(d.ba.elem,
                                             LAMBDA c : ~Matches(c, "MS:1000523"))]]

\* the length of the base64 text of n bytes
B64Len(n) == 4 * ((n + 2) \div 3)

\* the length of a zlib stream that stores n bytes: header, one stored
\* block, checksum
ZlibLen(n) == n + 11

\* BinaryDataArray.update_elem: the precision annotation is chosen by the
\* precision field
UpdateElem(ba0) ==
    LET d == Data(ba0)
        ba == d.ba
        nbytes == IF ba.compression = "zlib" THEN ZlibLen(4 * Len(ToBytes(ba.data)))
                  ELSE 4 * Len(ToBytes(ba.data))
        kept == SelectSeq(ba.elem, LAMBDA c : ~(c.tag = "cvParam" /\ c.ns))
        e1 == AddCv(kept, precision_cv(ba.precision), NoValue, NoCv)
        e2 == AddCv(e1, compression_cv(ba.compression), NoValue, NoCv)
        e3 == AddCv(e2, data_kind_cv(ba.kind), NoValue, NoCv)
    IN IF ~d.ok THEN d
       ELSE [ok |-> TRUE,
             ba |-> [ba EXCEPT !.text = B64Len(nbytes),
                               !.encodedLength = B64Len(nbytes),
                               !.encoded = ba.data.dtype,
                               !.elem = e3]]

\* from_element reads the text of the binary child, xpath(...)[0]: an
\* array without samples has a text only when it is compressed
CodecCalls ==
    { call \in
        { [fn |-> "codec", kind |-> k, precision |-> p, compression |-> c, vals |-> v,
           type |-> t, to |-> c2] :
            k \in {"mz", "intensity"}, p \in Precisions, c \in Compressions,
            v \in SeqsUpTo(Samples, 0, MaxSamples), t \in Precisions,
            c2 \in Compressions } :
        call.vals # <<>> \/ call.compression = "zlib" }

\* a step applies a filter to the array, or update_elem after the filters
CodecStep(op, r) ==
    fout' = [fn |-> "codec",
             ba |-> IF r.ok THEN r.ba ELSE fout.ba,
             log |-> Append(fout.log, op),
             st |-> IF ~r.ok THEN "error" ELSE IF op = "update" THEN "updated" ELSE "ok"]

Filtering == fin.fn = "codec" /\ fout.st = "ok" /\ Len(fout.log) < MaxFilters

\* an array that holds a value outside the table is cast no further
Castable(ba, dtype) ==
    ba.data.ok => \/ \A i \in 1..Len(ba.data.vals) : ba.data.vals[i] \in Samples
                  \/ ba.data.dtype = dtype

ApplyTypeFilter ==
    /\ Filtering
    /\ Castable(fout.ba, fin.type)
    /\ CodecStep("type", TypeFilterApply(fout.ba, fin.type))
    /\ UNCHANGED <<engineVars, fin>>

ApplyCompressionFilter ==
    /\ Filtering
    /\ CodecStep("compression", CompressionFilterApply(fout.ba, fin.to))
    /\ UNCHANGED <<engineVars, fin>>

ApplyAsFloat32Filter ==
    /\ Filtering
    /\ Castable(fout.ba, "float32")
    /\ CodecStep("float32", ToF32(fout.ba))
    /\ UNCHANGED <<engineVars, fin>>

ApplyUpdateElem ==
    /\ fin.fn = "codec" /\ fout.st = "ok"
    /\ CodecStep("update", UpdateElem(fout.ba))
    /\ UNCHANGED <<engineVars, fin>>

CodecInit ==
    /\ fin \in CodecCalls
    /\ fout = [fn |-> "codec",
               ba |-> ParsedArray(fin.kind, fin.precision, fin.compression, fin.vals),
               log |-> <<>>, st |-> "ok"]
    /\ doc = <<>>
    /\ spectra = <<>>
    /\ filters = <<>>
    /\ predicates = <<>>
    /\ cursor = 0
    /\ evq = <<>>
    /\ line = 0
    /\ wrote_line = FALSE
    /\ pc = "idle"
    /\ offset = 0
    /\ binary_arrays = << >>
    /\ out = <<>>
    /\ spectrum_offsets = <<>>

CodecNext ==
    \/ ApplyTypeFilter
    \/ ApplyCompressionFilter
    \/ ApplyAsFloat32Filter
    \/ ApplyUpdateElem

CodecSpec == CodecInit /\ [][CodecNext]_vars

(***************************************************************************)
(* Properties of the array filters and update_elem (checked under          *)
(* CodecSpec).                                                             *)
(***************************************************************************)
\* C17: TypeFilter is a cast whether or not the array was decoded before:
\* it raises nothing, the array then holds the samples that the payload
\* holds under its original precision, as elements of the requested type,
\* and the precision field is the requested type
C17_TypeFilterIsCast ==
    (/\ fin.fn = "codec"
     /\ fout.log \in {<<"type">>, <<"compression", "type">>}) =>
        /\ fout.st = "ok"
        /\ fout.ba.precision = fin.type
        /\ fout.ba.data = [ok |-> TRUE, dtype |-> fin.type, vals |-> fin.vals]

\* the annotations of an element that name one of the given terms
Annotations(elem, cvs) ==
    SelectSeq(elem, LAMBDA c : c.tag = "cvParam" /\ \E cv \in cvs : c.accession = cv.accession)

\* C18: after any sequence of filters and update_elem the element carries
\* one kind, one precision and one compression annotation, those of the
\* fields of the array; the precision annotation names the element type of
\* the buffer that was encoded; encodedLength is the length of the text
C18_AnnotationsMatchBuffer ==
    (fin.fn = "codec" /\ fout.st = "updated") =>
        LET ba == fout.ba
            kinds == Annotations(ba.elem, {data_kind_cv(k) : k \in {"mz", "intensity"}})
            precisions == Annotations(ba.elem, {precision_cv(p) : p \in Precisions})
            compressions == Annotations(ba.elem, {compression_cv(c) : c \in Compressions})
        IN /\ Len(kinds) = 1 /\ kinds[1].accession = data_kind_cv(ba.kind).accession
           /\ Len(precisions) = 1
           /\ precisions[1].accession = precision_cv(ba.precision).accession
           /\ precisions[1].accession = precision_cv(ba.encoded).accession
           /\ Len(compressions) = 1
           /\ compressions[1].accession = compression_cv(ba.compression).accession
           /\ ba.encodedLength = ba.text

C21_TrailerOnlyAfterClosingTag ==
    (pc = "index" \/ TrailerChunksAt # {}) =>
        \E l \in 1..cursor : \E j \in 1..Len(doc[l].events) :
            doc[l].events[j].action = "end" /\ doc[l].events[j].tag = "mzML"

====
